---- MODULE Spec2Model ----
(***************************************************************************)
(* Model of fb_notif_watcher.py: one invocation of main() polls an IMAP    *)
(* mailbox for unread mail of one sender, classifies every message with    *)
(* msg_matches, alerts on a match, flags the rest \Deleted and expunges.   *)
(*                                                                         *)
(* Text is a sequence of one-character strings; the URL schemes "http://"  *)
(* and "https://" and the HTML tags are single elements of such a          *)
(* sequence.  A mailbox is the sequence of its messages, a message's       *)
(* sequence number is its index.                                           *)
(***************************************************************************)
EXTENDS Integers, Sequences, FiniteSets

\* ---- bounds of the model --------------------------------------------
MaxMsgs == 2   \* messages in the initial mailbox
MaxRuns == 2   \* invocations of main() by the external scheduler

\* ---- configuration (lines 42-43) ------------------------------------
\* the default "מומה,Moma"; each Hebrew letter is one element
SEARCH_TERMS == << <<"MEM", "VAV", "MEM", "HE">>, <<"M", "o", "m", "a">> >>

Terms == {SEARCH_TERMS[i] : i \in 1..Len(SEARCH_TERMS)}

\* ---- text helpers ----------------------------------------------------
\* what re.IGNORECASE folds: the upper-case letters of the texts below
Lower(c) ==
    CASE c = "M" -> "m"
      [] c = "O" -> "o"
      [] c = "A" -> "a"
      [] OTHER   -> c

LowerSeq(s) == [i \in 1..Len(s) |-> Lower(s[i])]

\* re.search(re.escape(term), space, re.IGNORECASE) is not None
ReSearch(term, space) ==
    \E i \in 0..(Len(space) - Len(term)) :
        LowerSeq(SubSeq(space, i + 1, i + Len(term))) = LowerSeq(term)

\* {term for term in SEARCH_TERMS if re.search(...)}
TermsIn(space) == {t \in Terms : ReSearch(t, space)}

IsSpace(c) == c \in {" ", "\n"}

IsScheme(c) == c \in {"http://", "https://"}

IsTag(c) == c \in {"<p>", "</p>", "<a>", "</a>"}

\* end of the run of non-whitespace elements that starts at i
RECURSIVE TokenEnd(_, _)
TokenEnd(text, i) ==
    IF i + 1 <= Len(text) /\ ~IsSpace(text[i + 1])
    THEN TokenEnd(text, i + 1)
    ELSE i

\* re.findall(r"https?://\S+", text), scanning from position i
RECURSIVE FindLinks(_, _)
FindLinks(text, i) ==
    IF i > Len(text) THEN << >>
    ELSE IF IsScheme(text[i]) /\ i + 1 <= Len(text) /\ ~IsSpace(text[i + 1])
         THEN <<SubSeq(text, i, TokenEnd(text, i))>>
                  \o FindLinks(text, TokenEnd(text, i) + 1)
         ELSE FindLinks(text, i + 1)

extract_links(text) == FindLinks(text, 1)

\* BeautifulSoup(...).get_text(" ", strip=True): tags go, the pieces of
\* text between them are joined by one blank
get_text(markup) == [i \in 1..Len(markup) |->
                        IF IsTag(markup[i]) THEN " " ELSE markup[i]]

\* "\n".join(parts)
RECURSIVE JoinLines(_)
JoinLines(parts) ==
    IF parts = << >> THEN << >>
    ELSE IF Len(parts) = 1 THEN parts[1]
    ELSE parts[1] \o <<"\n">> \o JoinLines(Tail(parts))

\* the text of one MIME part, << >> for a part that contributes nothing
RECURSIVE WalkParts(_)
WalkParts(ps) ==
    IF ps = << >> THEN << >>
    ELSE (IF ps[1].ctype = "text/plain" THEN <<ps[1].payload>>
          ELSE IF ps[1].ctype = "text/html" THEN <<get_text(ps[1].payload)>>
          ELSE << >>) \o WalkParts(Tail(ps))

extract_text_from_msg(msg) ==
    IF msg.multipart
    THEN JoinLines(WalkParts(msg.parts))
    ELSE IF msg.parts[1].payload = << >> THEN << >>
         ELSE IF msg.parts[1].ctype = "text/plain" THEN msg.parts[1].payload
         ELSE get_text(msg.parts[1].payload)

\* "".join of the decoded fragments of a header; a header is the sequence
\* of the fragments decode_header yields, << >> when absent or empty
RECURSIVE decode_mime_words(_)
decode_mime_words(s) ==
    IF s = << >> THEN << >> ELSE s[1] \o decode_mime_words(Tail(s))

\* f"{subject}\n{payload_text}"
search_space(msg) ==
    decode_mime_words(msg.Subject) \o <<"\n">> \o extract_text_from_msg(msg)

\* ---- the web: requests.get(url).text for the pages that exist ---------
UrlA == <<"https://", "a">>
UrlB == <<"http://", "b">>

Web(url) ==
    CASE url = UrlA -> <<"x", " ", "M", "O", "M", "A">>
      [] url = UrlB -> <<"x">>
      [] OTHER      -> << >>

\* ---- messages --------------------------------------------------------
Plain(subject, payload) ==
    [Subject |-> subject, multipart |-> FALSE,
     parts |-> <<[ctype |-> "text/plain", payload |-> payload]>>]

Html(subject, payload) ==
    [Subject |-> subject, multipart |-> FALSE,
     parts |-> <<[ctype |-> "text/html", payload |-> payload]>>]

\* term in the subject (two encoded fragments, other case), no link
SubjectHit == Plain(<< <<"M", "O">>, <<"M", "A">> >>, <<"x">>)
\* term in the body, and a link whose page has a term too
BodyHitWithLink == Plain(<< >>, <<"MEM", "VAV", "MEM", "HE", " ", "https://", "a">>)
\* no term in the text, one link, its page has a term
LinkHit == Plain(<< <<"x">> >>, <<"x", " ", "https://", "a">>)
\* no term in the text, two links, only the second page has a term
TwoLinks ==
    [Subject |-> << >>, multipart |-> TRUE,
     parts |-> <<[ctype |-> "multipart/alternative", payload |-> << >>],
                 [ctype |-> "text/plain", payload |-> <<"http://", "b">>],
                 [ctype |-> "text/html",
                  payload |-> <<"<p>", "https://", "a", "</p>">>]>>]
\* no term anywhere: a tag splits the letters of the term
NoHit == Html(<< <<"x">> >>, <<"M", "o", "<a>", "m", "a", "</a>">>)
\* no term in the text, one link, its page has no term
NoHitLink == Plain(<< >>, <<"http://", "b", "\n", "x">>)

FB == "facebookmail.com"
Other == "example.org"

Stored(content, from, seen, deleted) ==
    [content |-> content, From |-> from, seen |-> seen, deleted |-> deleted]

\* what the mailbox may hold before the first invocation
MessageKinds ==
    {Stored(c, FB, FALSE, FALSE) :
        c \in {SubjectHit, BodyHitWithLink, LinkHit, TwoLinks, NoHit, NoHitLink}}
    \cup {Stored(SubjectHit, FB, FALSE, TRUE),
          Stored(NoHit, FB, TRUE, TRUE),
          Stored(SubjectHit, FB, TRUE, FALSE),
          Stored(NoHit, Other, FALSE, TRUE),
          Stored(LinkHit, Other, FALSE, FALSE)}

\* ---- state -----------------------------------------------------------
VARIABLES
    mailbox,     \* the inbox on the server: sequence of stored messages
    pc,          \* position of main(): "idle" before an invocation
    msg_nums,    \* line 123: sequence numbers returned by the search
    pos,         \* index into msg_nums of the message of this iteration
    msg,         \* line 129: content of the fetched message
    found,       \* line 61: the set msg_matches builds
    urls,        \* line 66: links msg_matches iterates over
    k,           \* index into urls of the link to fetch next
    sent,        \* alerts delivered to the chat, oldest first
    run,         \* number of this invocation
    mb0,         \* history: the mailbox when this invocation started
    fetched,     \* history: ids fetched by this invocation, in order
    result,      \* history: id -> what msg_matches returned and the link
                 \*          fetches it made, this invocation
    urlLog,      \* history: link fetches for this message, [url, ok]
    stores,      \* history: +FLAGS stores of this invocation, [id, flag]
    expunges,    \* history: expunge commands of this invocation
    abortedAt,   \* history: pc at which this invocation aborted, or "-"
    prevDone,    \* history: the invocation before this one ran to completion
    allDone      \* history: every earlier invocation ran to completion

vars == <<mailbox, pc, msg_nums, pos, msg, found, urls, k, sent, run, mb0,
          fetched, result, urlLog, stores, expunges, abortedAt, prevDone, allDone>>

NoMsg == [Subject |-> << >>, multipart |-> FALSE, parts |-> << >>]

Ids == 1..(MaxMsgs + 1)

\* the empty function, for result
NoResult == [i \in {} |-> {}]

\* the mailboxes of at most n messages of these kinds, ids 1, 2, ...
RECURSIVE Mailboxes(_, _)
Mailboxes(n, kinds) ==
    IF n = 0 THEN {<< >>}
    ELSE LET shorter == Mailboxes(n - 1, kinds)
         IN  shorter \cup
             {Append(mb, [id |-> n, content |-> m.content, From |-> m.From,
                          seen |-> m.seen, deleted |-> m.deleted]) :
                 mb \in {b \in shorter : Len(b) = n - 1}, m \in kinds}

\* before the first invocation
InitFrom(boxes) ==
    /\ mailbox \in boxes
    /\ pc = "idle"
    /\ msg_nums = << >>
    /\ pos = 1
    /\ msg = NoMsg
    /\ found = {}
    /\ urls = << >>
    /\ k = 1
    /\ sent = << >>
    /\ run = 0
    /\ mb0 = mailbox
    /\ fetched = << >>
    /\ result = NoResult
    /\ urlLog = << >>
    /\ stores = {}
    /\ expunges = 0
    /\ abortedAt = "-"
    /\ prevDone = FALSE
    /\ allDone = TRUE

Init == InitFrom(Mailboxes(MaxMsgs, MessageKinds))

\* ---- the IMAP server ---------------------------------------------------
\* SEARCH (UNSEEN HEADER From "facebookmail.com"): sequence numbers,
\* ascending
\* mutants of the search key
Wanted_AnySender(m) == ~m.seen

Wanted_SeenToo(m) == m.From = FB

Wanted(m) == ~m.seen /\ m.From = FB

RECURSIVE SearchFrom(_, _)
SearchFrom(mb, i) ==
    IF i > Len(mb) THEN << >>
    ELSE (IF Wanted(mb[i]) THEN <<i>> ELSE << >>)
             \o SearchFrom(mb, i + 1)

Search(mb) == SearchFrom(mb, 1)

\* STORE num +FLAGS flag
StoreFlag(mb, num, flag) ==
    [mb EXCEPT ![num] =
        IF flag = "\\Seen" THEN [@ EXCEPT !.seen = TRUE]
        ELSE [@ EXCEPT !.deleted = TRUE]]

Expunged_Nothing(mb) == mb

\* EXPUNGE: every message flagged \Deleted goes, the rest is renumbered
RECURSIVE Expunged(_)
Expunged(mb) ==
    IF mb = << >> THEN << >>
    ELSE (IF mb[1].deleted THEN << >> ELSE <<mb[1]>>) \o Expunged(Tail(mb))

\* ---- main() ----------------------------------------------------------
num == msg_nums[pos]

NextIteration_Early(n) == IF n >= Len(msg_nums) THEN "expunge" ELSE "fetch"

\* lines 126, 146: the next iteration of the loop, or the code after it
NextIteration(n) == IF n > Len(msg_nums) THEN "expunge" ELSE "fetch"

\* an invocation starts: lines 116-121, connect, login, select
Connect ==
    /\ pc \in {"idle", "done", "aborted"}
    /\ run < MaxRuns
    /\ pc' = "search"
    /\ run' = run + 1
    /\ prevDone' = (pc = "done")
    /\ allDone' = (allDone /\ pc # "aborted")
    /\ mb0' = mailbox
    /\ msg_nums' = << >>
    /\ pos' = 1
    /\ msg' = NoMsg
    /\ found' = {}
    /\ urls' = << >>
    /\ k' = 1
    /\ fetched' = << >>
    /\ result' = NoResult
    /\ urlLog' = << >>
    /\ stores' = {}
    /\ expunges' = 0
    /\ abortedAt' = "-"
    /\ UNCHANGED <<mailbox, sent>>

\* lines 122-123
SearchUnseen ==
    /\ pc = "search"
    /\ msg_nums' = Search(mailbox)
    /\ pos' = 1
    /\ pc' = IF Search(mailbox) = << >> THEN "expunge" ELSE "fetch"
    /\ UNCHANGED <<mailbox, msg, found, urls, k, sent, run, mb0, fetched,
                   result, urlLog, stores, expunges, abortedAt, prevDone, allDone>>

\* lines 128-129 and 57-66: FETCH num (RFC822), which like BODY[] sets
\* \Seen on the server (RFC 3501, 6.4.5; the mailbox is selected
\* read-write), then the search of the subject and the body text
FetchMessage ==
    /\ pc = "fetch"
    /\ mailbox' = StoreFlag(mailbox, num, "\\Seen")
    /\ msg' = mailbox[num].content
    /\ found' = TermsIn(search_space(mailbox[num].content))
    /\ urls' = IF TermsIn(search_space(mailbox[num].content)) = {}
               THEN extract_links(extract_text_from_msg(mailbox[num].content))
               ELSE << >>
    /\ k' = 1
    /\ urlLog' = << >>
    /\ fetched' = Append(fetched, mailbox[num].id)
    /\ pc' = "links"
    /\ UNCHANGED <<msg_nums, pos, sent, run, mb0, result, stores, expunges,
                   abortedAt, prevDone, allDone>>

\* mutant: the page arrives and is not searched
FetchLinkOk_PageIgnored ==
    /\ pc = "links"
    /\ k <= Len(urls)
    /\ urlLog' = Append(urlLog, [url |-> urls[k], ok |-> TRUE])
    /\ k' = k + 1
    /\ UNCHANGED <<mailbox, pc, msg_nums, pos, msg, found, urls, sent, run,
                   mb0, fetched, result, stores, expunges, abortedAt,
                   prevDone, allDone>>

\* lines 68-72: the page arrives and is searched
FetchLinkOk ==
    /\ pc = "links"
    /\ k <= Len(urls)
    /\ found' = found \cup TermsIn(Web(urls[k]))
    /\ urlLog' = Append(urlLog, [url |-> urls[k], ok |-> TRUE])
    /\ k' = k + 1
    /\ UNCHANGED <<mailbox, pc, msg_nums, pos, msg, urls, sent, run, mb0,
                   fetched, result, stores, expunges, abortedAt, prevDone, allDone>>

\* mutant: the handler leaves the loop over the links
FetchLinkFail_Break ==
    /\ pc = "links"
    /\ k <= Len(urls)
    /\ urlLog' = Append(urlLog, [url |-> urls[k], ok |-> FALSE])
    /\ k' = Len(urls) + 1
    /\ UNCHANGED <<mailbox, pc, msg_nums, pos, msg, found, urls, sent, run,
                   mb0, fetched, result, stores, expunges, abortedAt,
                   prevDone, allDone>>

\* mutant: the failed fetch is tried again
FetchLinkFail_Retry ==
    /\ pc = "links"
    /\ k <= Len(urls)
    /\ urlLog' = Append(urlLog, [url |-> urls[k], ok |-> FALSE])
    /\ UNCHANGED <<mailbox, pc, msg_nums, pos, msg, found, urls, k, sent, run,
                   mb0, fetched, result, stores, expunges, abortedAt,
                   prevDone, allDone>>

\* lines 73-74: requests.get raises, the exception is swallowed
FetchLinkFail ==
    /\ pc = "links"
    /\ k <= Len(urls)
    /\ urlLog' = Append(urlLog, [url |-> urls[k], ok |-> FALSE])
    /\ k' = k + 1
    /\ UNCHANGED <<mailbox, pc, msg_nums, pos, msg, found, urls, sent, run,
                   mb0, fetched, result, stores, expunges, abortedAt,
                   prevDone, allDone>>

\* mutant: main() alerts whatever msg_matches returns
MsgMatchesReturn_AlwaysAlert ==
    /\ pc = "links"
    /\ k > Len(urls)
    /\ result' = [i \in DOMAIN result \cup {mailbox[num].id} |->
                     IF i = mailbox[num].id
                     THEN [matches |-> found, log |-> urlLog]
                     ELSE result[i]]
    /\ pc' = "alert"
    /\ UNCHANGED <<mailbox, msg_nums, pos, msg, found, urls, k, sent, run,
                   mb0, fetched, urlLog, stores, expunges, abortedAt,
                   prevDone, allDone>>

\* lines 76, 130, 133: msg_matches returns, main() branches on the list
MsgMatchesReturn ==
    /\ pc = "links"
    /\ k > Len(urls)
    /\ result' = [i \in DOMAIN result \cup {mailbox[num].id} |->
                     IF i = mailbox[num].id
                     THEN [matches |-> found, log |-> urlLog]
                     ELSE result[i]]
    /\ pc' = IF found # {} THEN "alert" ELSE "storeDeleted"
    /\ UNCHANGED <<mailbox, msg_nums, pos, msg, found, urls, k, sent, run,
                   mb0, fetched, urlLog, stores, expunges, abortedAt,
                   prevDone, allDone>>

\* lines 135-137: the alert text, before text[:4096]
AlertText ==
    [found |-> found,
     subj  |-> IF msg.Subject = << >> THEN <<"(no subject)">>
               ELSE decode_mime_words(msg.Subject),
     link  |-> IF extract_links(extract_text_from_msg(msg)) = << >>
               THEN <<"(no link)">>
               ELSE extract_links(extract_text_from_msg(msg))[1]]

\* lines 139, 48-51: the post succeeds
SendTelegramOk ==
    /\ pc = "alert"
    /\ sent' = Append(sent, [run |-> run, id |-> mailbox[num].id,
                             text |-> AlertText])
    /\ pc' = "storeSeen"
    /\ UNCHANGED <<mailbox, msg_nums, pos, msg, found, urls, k, run, mb0,
                   fetched, result, urlLog, stores, expunges, abortedAt,
                   prevDone, allDone>>

\* lines 50-51: requests.post or raise_for_status raises, main() has no
\* handler, the with block logs out and the invocation ends
SendTelegramFail ==
    /\ pc = "alert"
    /\ pc' = "aborted"
    /\ abortedAt' = "alert"
    /\ UNCHANGED <<mailbox, msg_nums, pos, msg, found, urls, k, sent, run,
                   mb0, fetched, result, urlLog, stores, expunges, prevDone, allDone>>

\* mutant: the two flags swapped
StoreSeen_AsDeleted ==
    /\ pc = "storeSeen"
    /\ mailbox' = StoreFlag(mailbox, num, "\\Deleted")
    /\ stores' = stores \cup {[id |-> mailbox[num].id, flag |-> "\\Deleted"]}
    /\ pos' = pos + 1
    /\ pc' = NextIteration(pos + 1)
    /\ UNCHANGED <<msg_nums, msg, found, urls, k, sent, run, mb0, fetched,
                   result, urlLog, expunges, abortedAt, prevDone, allDone>>

\* line 140
StoreSeen ==
    /\ pc = "storeSeen"
    /\ mailbox' = StoreFlag(mailbox, num, "\\Seen")
    /\ stores' = stores \cup {[id |-> mailbox[num].id, flag |-> "\\Seen"]}
    /\ pos' = pos + 1
    /\ pc' = NextIteration(pos + 1)
    /\ UNCHANGED <<msg_nums, msg, found, urls, k, sent, run, mb0, fetched,
                   result, urlLog, expunges, abortedAt, prevDone, allDone>>

\* line 144
StoreDeleted ==
    /\ pc = "storeDeleted"
    /\ mailbox' = StoreFlag(mailbox, num, "\\Deleted")
    /\ stores' = stores \cup {[id |-> mailbox[num].id, flag |-> "\\Deleted"]}
    /\ pos' = pos + 1
    /\ pc' = NextIteration(pos + 1)
    /\ UNCHANGED <<msg_nums, msg, found, urls, k, sent, run, mb0, fetched,
                   result, urlLog, expunges, abortedAt, prevDone, allDone>>

\* lines 147-148
Expunge ==
    /\ pc = "expunge"
    /\ mailbox' = Expunged(mailbox)
    /\ expunges' = expunges + 1
    /\ pc' = "done"
    /\ UNCHANGED <<msg_nums, pos, msg, found, urls, k, sent, run, mb0,
                   fetched, result, urlLog, stores, abortedAt, prevDone, allDone>>

\* an IMAP command raises (imaplib.IMAP4.error or abort, a lost
\* connection): no handler in main(), the invocation ends
ImapError ==
    /\ pc \in {"search", "fetch", "storeSeen", "storeDeleted", "expunge"}
    /\ pc' = "aborted"
    /\ abortedAt' = pc
    /\ UNCHANGED <<mailbox, msg_nums, pos, msg, found, urls, k, sent, run,
                   mb0, fetched, result, urlLog, stores, expunges, prevDone, allDone>>

\* the steps of one invocation
Step ==
    \/ SearchUnseen
    \/ FetchMessage
    \/ FetchLinkOk
    \/ FetchLinkFail
    \/ MsgMatchesReturn
    \/ SendTelegramOk
    \/ SendTelegramFail
    \/ StoreSeen
    \/ StoreDeleted
    \/ Expunge
    \/ ImapError

Next == Connect \/ Step

Spec == Init /\ [][Next]_vars

\* the mailboxes of the termination check
LiveKinds ==
    {Stored(SubjectHit, FB, FALSE, FALSE),
     Stored(TwoLinks, FB, FALSE, FALSE),
     Stored(NoHit, FB, FALSE, FALSE),
     Stored(NoHit, Other, FALSE, TRUE)}

LiveInit == InitFrom(Mailboxes(MaxMsgs, LiveKinds))

\* every external call eventually returns or fails
LiveSpec == LiveInit /\ [][Next]_vars /\ WF_vars(Step)

\* ---- vocabulary of the properties --------------------------------------
PresentIds(mb) == {mb[i].id : i \in DOMAIN mb}

\* the stored message with this id
Entry(mb, id) == mb[CHOOSE i \in DOMAIN mb : mb[i].id = id]

\* ids returned by the search of this invocation
ResultIds == {mb0[msg_nums[i]].id : i \in DOMAIN msg_nums}

\* ids whose loop iteration has finished
DoneIds == {mb0[msg_nums[i]].id : i \in 1..(pos - 1)}

\* alerts of this invocation for the message
AlertsFor(id) == Cardinality({i \in DOMAIN sent :
                                 sent[i].run = run /\ sent[i].id = id})

AlertsEver(id) == Cardinality({i \in DOMAIN sent : sent[i].id = id})

StoredSeen(id) == [id |-> id, flag |-> "\\Seen"] \in stores

StoredDeleted(id) == [id |-> id, flag |-> "\\Deleted"] \in stores

NonMatching(id) == id \in DOMAIN result /\ result[id].matches = {}

Matching(id) == id \in DOMAIN result /\ result[id].matches # {}

\* terms of the pages behind the links of the extracted body text
LinkedTerms(m) ==
    UNION {TermsIn(Web(extract_links(extract_text_from_msg(m))[i])) :
              i \in DOMAIN extract_links(extract_text_from_msg(m))}

\* ---- C1 --------------------------------------------------------------
\* C1 as stated: when an invocation has ended, done or aborted by the
\* failed alert of another message, every message it classified as
\* non-matching is gone from the mailbox.
C1_PurgedWhateverHappens ==
    (pc = "done" \/ (pc = "aborted" /\ abortedAt = "alert")) =>
        \A id \in DoneIds :
            NonMatching(id) => id \notin PresentIds(mailbox)

\* C1 amended: when an invocation has run to completion, every message it
\* classified as non-matching is gone from the mailbox; an invocation that
\* aborts removes nothing.
C1_PurgedWhenCompleted ==
    /\ pc = "done" =>
           \A id \in DOMAIN result :
               NonMatching(id) => id \notin PresentIds(mailbox)
    /\ pc = "aborted" => PresentIds(mailbox) = PresentIds(mb0)

C1_Witness ==
    /\ pc = "done"
    /\ \E id \in DOMAIN result : NonMatching(id)
    /\ \E id \in DOMAIN result : Matching(id)

\* ---- C2 --------------------------------------------------------------
\* C2 as stated: after a completed invocation every message of the search
\* result that matched got exactly one alert, a \Seen store, no \Deleted
\* store, and is still in the mailbox.
C2_MatchKept ==
    pc = "done" =>
        \A id \in ResultIds :
            Matching(id) =>
                /\ AlertsFor(id) = 1
                /\ StoredSeen(id)
                /\ ~StoredDeleted(id)
                /\ id \in PresentIds(mailbox)
                /\ Entry(mailbox, id).seen

\* C2 amended: ... and is still in the mailbox, flagged \Seen, unless it
\* carried \Deleted already when the invocation started: then the expunge
\* removes it.
C2_MatchKeptUnlessDeletedBefore ==
    pc = "done" =>
        \A id \in ResultIds :
            Matching(id) =>
                /\ AlertsFor(id) = 1
                /\ StoredSeen(id)
                /\ ~StoredDeleted(id)
                /\ id \in PresentIds(mailbox) <=> ~Entry(mb0, id).deleted
                /\ id \in PresentIds(mailbox) =>
                       /\ Entry(mailbox, id).seen
                       /\ ~Entry(mailbox, id).deleted

C2_Witness ==
    /\ pc = "done"
    /\ \E id \in ResultIds : Matching(id) /\ id \in PresentIds(mailbox)
    /\ \E id \in ResultIds : Matching(id) /\ id \notin PresentIds(mailbox)

\* ---- C3 --------------------------------------------------------------
\* C3 as stated: a message gets a \Deleted store only if no term occurs in
\* its subject or extracted body text nor in any page its body links to.
C3_DeletedOnlyIfNoTermAnywhere ==
    \A id \in PresentIds(mb0) :
        StoredDeleted(id) =>
            /\ TermsIn(search_space(Entry(mb0, id).content)) = {}
            /\ LinkedTerms(Entry(mb0, id).content) = {}

\* C3 amended: a message gets a \Deleted store only if no term occurs in
\* its subject or extracted body text, every link of that text was tried
\* once, and no term occurs in a page that was fetched successfully.
C3_DeletedOnlyIfNoTermSeen ==
    \A id \in PresentIds(mb0) :
        StoredDeleted(id) =>
            LET m   == Entry(mb0, id).content
                log == result[id].log
            IN  /\ TermsIn(search_space(m)) = {}
                /\ [i \in DOMAIN log |-> log[i].url]
                       = extract_links(extract_text_from_msg(m))
                /\ \A i \in DOMAIN log :
                       log[i].ok => TermsIn(Web(log[i].url)) = {}

\* a message whose linked page has a term is deleted after a failed fetch
C3_Witness ==
    \E id \in PresentIds(mb0) :
        /\ StoredDeleted(id)
        /\ LinkedTerms(Entry(mb0, id).content) # {}
        /\ \E i \in DOMAIN result[id].log : result[id].log[i].ok

\* ---- C4 --------------------------------------------------------------
\* messages of the starting mailbox that the search does not return
Outside == {mb0[i] : i \in {j \in DOMAIN mb0 :
                                mb0[j].seen \/ mb0[j].From # FB}}

Unchanged(e) == \E i \in DOMAIN mailbox : mailbox[i] = e

\* C4 as stated: every message outside the search result is in the mailbox
\* with the flags it had, during and after the invocation.
C4_OutsideUntouched == \A e \in Outside : Unchanged(e)

\* C4 amended: every message outside the search result keeps its flags,
\* and stays in the mailbox unless it carried \Deleted when the invocation
\* started: such a message is removed by the final expunge.
C4_OutsideUntouchedUnlessDeleted ==
    \A e \in Outside :
        /\ (~e.deleted \/ pc # "done") => Unchanged(e)
        /\ (e.deleted /\ pc = "done") => e.id \notin PresentIds(mailbox)

\* an invocation that flagged a message and expunged one it never saw
C4_Witness ==
    /\ pc = "done"
    /\ stores # {}
    /\ \E e \in Outside : e.deleted

\* ---- C5 --------------------------------------------------------------
NotifyOutcome(id) ==
    Matching(id) /\ AlertsFor(id) = 1 /\ StoredSeen(id) /\ ~StoredDeleted(id)

DeleteOutcome(id) ==
    NonMatching(id) /\ AlertsFor(id) = 0 /\ StoredDeleted(id) /\ ~StoredSeen(id)

C6_SingleBatchPurge ==
    /\ pc # "done" =>
           /\ expunges = 0
           /\ PresentIds(mailbox) = PresentIds(mb0)
           /\ Len(mailbox) = Len(mb0)
    /\ pc \in {"expunge", "done"} =>
           /\ pos = Len(msg_nums) + 1
           /\ \A id \in ResultIds :
                  id \in DOMAIN result /\ (StoredSeen(id) \/ StoredDeleted(id))
    /\ pc = "done" =>
           /\ expunges = 1
           /\ mailbox = Expunged([i \in DOMAIN mb0 |->
                  IF mb0[i].id \in ResultIds
                  THEN [mb0[i] EXCEPT !.seen = TRUE,
                                      !.deleted = @ \/ NonMatching(mb0[i].id)]
                  ELSE mb0[i]])

C6_Witness ==
    /\ pc = "done"
    /\ Len(msg_nums) >= 2
    /\ Len(mailbox) < Len(mb0)

\* the empty search result: the expunge is issued all the same
C6_WitnessEmpty ==
    /\ pc = "done"
    /\ msg_nums = << >>
    /\ Len(mailbox) < Len(mb0)

\* ---- C7 --------------------------------------------------------------
\* the pass is linear: the messages fetched are a prefix of the search
\* result, each once and in its order; the links fetched for a message are
\* a prefix of its links, each once and in order, failed or not; nothing
\* follows a failed step but the end of the invocation
C7_Linear ==
    /\ fetched = [i \in DOMAIN fetched |-> mb0[msg_nums[i]].id]
    /\ pc \in {"idle", "search"} => fetched = << >>
    /\ pc = "fetch" => Len(fetched) = pos - 1
    /\ pc \in {"links", "alert", "storeSeen", "storeDeleted"} =>
           Len(fetched) = pos
    /\ pc \in {"expunge", "done"} => Len(fetched) = Len(msg_nums)
    /\ Len(urlLog) = k - 1
    /\ urlLog = [i \in DOMAIN urlLog |->
                    [url |-> urls[i], ok |-> urlLog[i].ok]]
    /\ \A id \in PresentIds(mb0) : AlertsFor(id) <= 1
    /\ (abortedAt = "-") = (pc # "aborted")

\* C7: an invocation is a linear pass over the search result, and once
\* started it ends, done or aborted, when every external call returns or
\* fails.
C7_LinearAndEnds ==
    /\ []C7_Linear
    /\ (pc = "search") ~> (pc \in {"done", "aborted"})

C7_Witness ==
    /\ pc = "done"
    /\ Len(fetched) >= 2
    /\ \E i \in DOMAIN urlLog : ~urlLog[i].ok

\* ---- C8 --------------------------------------------------------------
\* C8: msg_matches returns the terms of the subject and body text, with
\* no link fetched, when there is one; otherwise it tries every link of
\* the body text once, in order, whether or not a fetch fails, and returns
\* the terms of the pages it got. A failed link fetch never ends the
\* invocation.
C8_LinksOnlyWithoutTextMatch ==
    /\ \A id \in DOMAIN result :
           LET m   == Entry(mb0, id).content
               r   == result[id]
           IN  IF TermsIn(search_space(m)) # {}
               THEN r.log = << >> /\ r.matches = TermsIn(search_space(m))
               ELSE /\ [i \in DOMAIN r.log |-> r.log[i].url]
                           = extract_links(extract_text_from_msg(m))
                    /\ r.matches =
                           UNION {TermsIn(Web(r.log[i].url)) :
                                     i \in {j \in DOMAIN r.log : r.log[j].ok}}
    /\ abortedAt # "links"

\* a text match beside a link, and a failed fetch followed by a hit
C8_Witness ==
    /\ \E id \in DOMAIN result :
           /\ result[id].matches # {}
           /\ result[id].log = << >>
           /\ extract_links(extract_text_from_msg(Entry(mb0, id).content))
                  # << >>
    /\ \E id \in DOMAIN result :
           /\ Len(result[id].log) = 2
           /\ ~result[id].log[1].ok
           /\ result[id].log[2].ok
           /\ result[id].matches # {}

\* ---- C9 --------------------------------------------------------------
\* C9: a \Seen store follows the alert of its message; when send_telegram
\* fails the invocation aborts there: the message has the flags it had
\* when the invocation started, nothing after it was fetched, no alert was
\* sent for it, no expunge was issued, and the messages flagged \Deleted
\* before it are still in the mailbox, flagged.
C9_AlertPrecedesFlag ==
    /\ \A id \in PresentIds(mb0) : StoredSeen(id) => AlertsFor(id) = 1
    /\ abortedAt = "alert" =>
           /\ pc = "aborted"
           /\ Entry(mailbox, mb0[num].id) = mb0[num]
           /\ ~StoredSeen(mb0[num].id) /\ ~StoredDeleted(mb0[num].id)
           /\ AlertsFor(mb0[num].id) = 0
           /\ Len(fetched) = pos
           /\ expunges = 0
           /\ \A id \in PresentIds(mb0) :
                  StoredDeleted(id) =>
                      id \in PresentIds(mailbox) /\ Entry(mailbox, id).deleted

\* what does hold: the claim without the flags of the message
C9_AlertPrecedesStore ==
    /\ \A id \in PresentIds(mb0) : StoredSeen(id) => AlertsFor(id) = 1
    /\ abortedAt = "alert" =>
           /\ pc = "aborted"
           /\ ~StoredSeen(mb0[num].id) /\ ~StoredDeleted(mb0[num].id)
           /\ AlertsFor(mb0[num].id) = 0
           /\ Len(fetched) = pos
           /\ expunges = 0
           /\ \A id \in PresentIds(mb0) :
                  StoredDeleted(id) =>
                      id \in PresentIds(mailbox) /\ Entry(mailbox, id).deleted

\* ---- C10 -------------------------------------------------------------
\* C10: after a completed invocation every message it processed is flagged
\* \Seen or gone and a new search returns nothing; the invocation that
\* follows a completed one finds nothing, alerts nothing, stores no flag
\* and leaves the mailbox as it was; while every invocation completes, no
\* message has more than one alert.
C10_NoDuplicateAlerts ==
    /\ pc = "done" =>
           /\ Search(mailbox) = << >>
           /\ \A i \in DOMAIN fetched :
                  fetched[i] \in PresentIds(mailbox) =>
                      Entry(mailbox, fetched[i]).seen
    /\ (run >= 2 /\ prevDone /\ pc # "search") =>
           /\ msg_nums = << >>
           /\ \A i \in DOMAIN sent : sent[i].run # run
           /\ stores = {}
           /\ mailbox = mb0
    /\ (allDone /\ pc # "aborted") =>
           \A id \in Ids : AlertsEver(id) <= 1

C10_Witness ==
    /\ run = 2
    /\ prevDone
    /\ pc = "done"
    /\ sent # << >>
    /\ Len(mailbox) >= 2
====
